---- MODULE Spec2Model ----
(***************************************************************************)
(* A model of src/rwkv_tokenizer.c: the byte trie (insertTrie,             *)
(* findLongest), the token table (addToken with parse_python_literal),     *)
(* encode, decode and freeTokenizer.                                       *)
(*                                                                         *)
(* A trie node is named by the byte path that leads to it from the root    *)
(* (the tree is exclusively owned, so a node and its path determine each    *)
(* other); a node exists when its path is in DOMAIN root, and              *)
(* node->children[c] is non-NULL when Append(path, c) is in DOMAIN root.   *)
(* Bytes and characters are their integer codes.  The arrays idx2token and *)
(* token2idx are calloc'ed: an index that was never stored holds 0 / NULL, *)
(* and only the stored indexes are kept.                                   *)
(***************************************************************************)
EXTENDS Integers, Sequences, FiniteSets, TLC

\* ---- program constants -------------------------------------------------
MAX_TOKENS == 100000
MAX_TOKEN_LENGTH == 256
NCHILDREN == 256
NOVALUE == -1

\* ---- bounds of the model -----------------------------------------------
MaxAdds == 2
MaxTextLen == 2
MaxIdsLen == 2
MaxInserts == 2
MaxKeyLen == 2
MaxDataLen == 3
MaxLenAdds == 2
MaxCapAdds == 2
MaxReload == 258

\* ---- character codes used by the literal parser -------------------------
QUOTE1 == 39
BACKSLASH == 92
CH_b == 98

VARIABLES
    root,        \* the trie: node path -> node->value
    idx2token,   \* stored indexes of tokenizer->idx2token -> heap handle
    token2idx,   \* stored indexes of tokenizer->token2idx -> int
    num_tokens,  \* tokenizer->num_tokens
    heap,        \* the buffers malloc'ed by addToken: handle -> [data, frees]
    nodeFrees,   \* node path -> number of times free() was called on it
    ub,          \* an out-of-range store has happened
    pc,          \* where the caller is: "idle", "encode", "encoded", "decoded", "freed"
    call,        \* the last completed call: its name and arguments
    text,        \* encode: the text argument
    length,      \* encode: strlen(text)
    index,       \* encode: index
    encoded,     \* encode: encoded[0 .. *num_encoded)
    decOut,      \* the last result of decode
    found,       \* the last result of findLongest: [value, endIndex]
    inserted     \* history: key -> the value of the latest insertTrie(key, value)

vars == <<root, idx2token, token2idx, num_tokens, heap, nodeFrees, ub, pc, call,
          text, length, index, encoded, decOut, found, inserted>>

\* ---- small helpers -------------------------------------------------------
SeqsUpTo(S, n) == UNION {[1..k -> S] : k \in 0..n}

Repeat(c, n) == [i \in 1..n |-> c]

\* p[i] in C for a NUL-terminated string held as a sequence (0-based i)
CharAt(s, i) == IF i + 1 <= Len(s) THEN s[i + 1] ELSE 0

\* strlen: the number of bytes before the first NUL
RECURSIVE strlenFrom(_, _)
strlenFrom(s, i) == IF CharAt(s, i) = 0 THEN i ELSE strlenFrom(s, i + 1)

strlen(s) == strlenFrom(s, 0)

IsPrefix(k, d) == Len(k) <= Len(d) /\ SubSeq(d, 1, Len(k)) = k

\* a calloc'ed array read: a stored index, or 0
Load(arr, i) == IF i \in DOMAIN arr THEN arr[i] ELSE 0

Store(arr, i, v) == [j \in DOMAIN arr \cup {i} |-> IF j = i THEN v ELSE arr[j]]

\* ---- trie ----------------------------------------------------------------
createTrieNode == NOVALUE

\* insertTrie that leaves a terminal value alone once it is set
insertTrieKeepFirst(t, key, key_length, value) ==
    LET visited == {SubSeq(key, 1, i) : i \in 0..key_length}
        node == SubSeq(key, 1, key_length)
    IN [p \in DOMAIN t \cup visited |->
           IF p \in DOMAIN t /\ t[p] # NOVALUE THEN t[p]
           ELSE IF p = node THEN value ELSE NOVALUE]

\* The loop visits the nodes key[0..i) for i = 0 .. key_length, creating each one
\* that is missing with createTrieNode, and sets the value of the last.
insertTrie(t, key, key_length, value) ==
    LET visited == {SubSeq(key, 1, i) : i \in 0..key_length}
        node == SubSeq(key, 1, key_length)
    IN [p \in DOMAIN t \cup visited |->
           IF p = node THEN value
           ELSE IF p \in DOMAIN t THEN t[p] ELSE createTrieNode]

RECURSIVE findLoop(_, _, _, _, _, _, _)
findLoop(t, data, data_length, node, idx, endIndex, value) ==
    IF idx < data_length /\ Append(node, data[idx + 1]) \in DOMAIN t
    THEN LET next == Append(node, data[idx + 1])
             hit == t[next] # NOVALUE
         IN findLoop(t, data, data_length, next, idx + 1,
                     IF hit THEN idx + 1 ELSE endIndex,
                     IF hit THEN t[next] ELSE value)
    ELSE [value |-> value, endIndex |-> endIndex]

\* findLongest that also takes the value of the node it starts from
findLongestFromRoot(t, data, data_length) ==
    findLoop(t, data, data_length, <<>>, 0, 0, t[<<>>])

findLongest(t, data, data_length) == findLoop(t, data, data_length, <<>>, 0, 0, NOVALUE)

createTokenizer == [root |-> (<<>> :> createTrieNode), num_tokens |-> 0]

\* ---- literal parser --------------------------------------------------------
parse_hex(c) ==
    IF c >= 48 /\ c <= 57 THEN c - 48
    ELSE IF c >= 97 /\ c <= 102 THEN c - 97 + 10
    ELSE IF c >= 65 /\ c <= 70 THEN c - 65 + 10
    ELSE -1

\* The while loop of parse_python_literal; p is the 0-based read position.  A run
\* of characters that are neither the quote nor a backslash is copied in one step:
\* the loop's else branch repeats until the quote, a backslash or a full buffer.
RunEnd(literal, quote, p, room) ==
    LET stops == {q \in (p + 1)..(p + room) :
                     CharAt(literal, q) = quote \/ CharAt(literal, q) = BACKSLASH}
    IN IF stops = {} THEN p + room ELSE CHOOSE q \in stops : \A r \in stops : q <= r

RECURSIVE parseLoop(_, _, _, _, _)
parseLoop(literal, quote, p, out, out_len) ==
    IF CharAt(literal, p) # quote /\ Len(out) < out_len
    THEN IF CharAt(literal, p) = BACKSLASH
         THEN LET e == CharAt(literal, p + 1) IN
              CASE e = 110 -> parseLoop(literal, quote, p + 2, Append(out, 10), out_len)
                [] e = 114 -> parseLoop(literal, quote, p + 2, Append(out, 13), out_len)
                [] e = 116 -> parseLoop(literal, quote, p + 2, Append(out, 9), out_len)
                [] e = 92 -> parseLoop(literal, quote, p + 2, Append(out, 92), out_len)
                [] e = 39 -> parseLoop(literal, quote, p + 2, Append(out, 39), out_len)
                [] e = 34 -> parseLoop(literal, quote, p + 2, Append(out, 34), out_len)
                [] e = 120 ->
                     LET hex1 == parse_hex(CharAt(literal, p + 2))
                         hex2 == parse_hex(CharAt(literal, p + 3))
                     IN IF hex1 # -1 /\ hex2 # -1
                        THEN parseLoop(literal, quote, p + 4,
                                       Append(out, hex1 * 16 + hex2), out_len)
                        ELSE [len |-> -1, out |-> <<>>]
                [] OTHER -> [len |-> -1, out |-> <<>>]
         ELSE LET q == RunEnd(literal, quote, p, out_len - Len(out))
              IN parseLoop(literal, quote, q, out \o SubSeq(literal, p + 1, q), out_len)
    ELSE [len |-> Len(out), out |-> out]

parse_python_literal(literal, out_len) ==
    LET start == IF CharAt(literal, 0) = CH_b THEN 1 ELSE 0
    IN parseLoop(literal, CharAt(literal, start), start + 1, <<>>, out_len)

\* ---- inputs drawn by the actions ------------------------------------------
LitA == <<CH_b, QUOTE1, BACKSLASH, 120, 54, 49, QUOTE1>>   \* b'\x61', the byte "a"
LitAB == <<QUOTE1, 97, 98, QUOTE1>>                        \* 'ab'
LitEmpty == <<QUOTE1, QUOTE1>>                             \* ''
LitBad == <<QUOTE1, BACKSLASH, 113, QUOTE1>>               \* '\q', an unknown escape
LitOf(bytes) == <<QUOTE1>> \o bytes \o <<QUOTE1>>

Literals == {LitA, LitAB, LitEmpty, LitBad}
Ids == {0, 256, 300}
TextBytes == {97, 98}
Texts == SeqsUpTo(TextBytes, MaxTextLen)
DecodeIds == {97, 256, 300}
IdSeqs == SeqsUpTo(DecodeIds, MaxIdsLen)

\* the locals of a call that has returned and whose result the caller dropped
NoEncode == text' = <<>> /\ length' = 0 /\ index' = 0 /\ encoded' = <<>>
NoResult == decOut' = [null |-> FALSE, str |-> <<>>] /\ found' = [value |-> NOVALUE, endIndex |-> 0]

Callable == pc \in {"idle", "encoded", "decoded"} /\ ~ub

Call(op, lit, id, ids) == [op |-> op, lit |-> lit, id |-> id, ids |-> ids]

\* ---- addToken --------------------------------------------------------------
\* The stores idx2token[id] and token2idx[id] are made at index id whatever id
\* is.  Outside [0, MAX_TOKENS) they land outside the arrays (undefined
\* behaviour): the store is recorded at its index and ub is raised.  num_tokens
\* lies right behind token2idx in the struct, so the increment starts either from
\* its old value or from the id just stored.  No call is followed after that
\* (Callable asks for ~ub).
addToken(token_literal, id) ==
    LET parsed == parse_python_literal(token_literal, MAX_TOKEN_LENGTH)
        token == parsed.out
        token_length == parsed.len
    IN IF token_length < 0
       THEN UNCHANGED <<root, idx2token, token2idx, num_tokens, heap, ub, inserted>>
       ELSE /\ root' = insertTrie(root, token, token_length, id)
            /\ inserted' = Store(inserted, SubSeq(token, 1, token_length), id)
            /\ heap' = Append(heap, [data |-> SubSeq(token, 1, token_length) \o <<0>>,
                                     frees |-> 0])
            /\ idx2token' = Store(idx2token, id, Len(heap) + 1)
            /\ token2idx' = Store(token2idx, id, id)
            /\ IF id >= 0 /\ id < MAX_TOKENS
               THEN num_tokens' = num_tokens + 1 /\ ub' = ub
               ELSE num_tokens' \in {num_tokens + 1, id + 1} /\ ub' = TRUE

AddToken ==
    /\ Callable
    /\ num_tokens < MaxAdds
    /\ \E lit \in Literals, id \in Ids :
          /\ addToken(lit, id)
          /\ call' = Call("addToken", lit, id, <<>>)
    /\ pc' = "idle"
    /\ NoEncode
    /\ NoResult
    /\ UNCHANGED nodeFrees

\* ---- encode ------------------------------------------------------------------
EncodeBegin ==
    /\ Callable
    /\ \E t \in Texts :
          /\ text' = t
          /\ length' = strlen(t)
    /\ index' = 0
    /\ encoded' = <<>>
    /\ pc' = "encode"
    /\ call' = Call("encode", <<>>, 0, <<>>)
    /\ NoResult
    /\ UNCHANGED <<root, idx2token, token2idx, num_tokens, heap, nodeFrees, ub, inserted>>

\* an iteration of encode that creates the child for the next byte when it is missing
EncodeLoopCreating ==
    /\ pc = "encode"
    /\ index < length
    /\ LET match == findLongest(root, SubSeq(text, index + 1, Len(text)), length - index)
           endIndex == match.endIndex
           id == match.value
       IN IF endIndex = index \/ id = -1
          THEN /\ encoded' = Append(encoded, text[index + 1])
               /\ index' = index + 1
          ELSE /\ encoded' = Append(encoded, id)
               /\ index' = index + endIndex
    /\ root' = IF <<text[index + 1]>> \in DOMAIN root THEN root
               ELSE root @@ (<<text[index + 1]>> :> NOVALUE)
    /\ UNCHANGED <<idx2token, token2idx, num_tokens, heap, nodeFrees, ub, pc,
                   call, text, length, decOut, found, inserted>>

\* one iteration of the while loop of encode
EncodeLoop ==
    /\ pc = "encode"
    /\ index < length
    /\ LET match == findLongest(root, SubSeq(text, index + 1, Len(text)), length - index)
           endIndex == match.endIndex
           id == match.value
       IN IF endIndex = index \/ id = -1
          THEN /\ encoded' = Append(encoded, text[index + 1])
               /\ index' = index + 1
          ELSE /\ encoded' = Append(encoded, id)
               /\ index' = index + endIndex
    /\ UNCHANGED <<root, idx2token, token2idx, num_tokens, heap, nodeFrees, ub, pc,
                   call, text, length, decOut, found, inserted>>

EncodeReturn ==
    /\ pc = "encode"
    /\ ~(index < length)
    /\ pc' = "encoded"
    /\ UNCHANGED <<root, idx2token, token2idx, num_tokens, heap, nodeFrees, ub,
                   call, text, length, index, encoded, decOut, found, inserted>>

\* ---- decode ------------------------------------------------------------------
\* tokenizer->idx2token[id] as a C string (only read when the pointer is not NULL)
TokenString(id) == heap[Load(idx2token, id)].data

\* the test of lines 175 and 192
InTable(id) == id < num_tokens /\ Load(idx2token, id) # 0

\* first loop: total_length, or -1 for the early return NULL
RECURSIVE decodeLength(_, _, _, _)
decodeLength(tokens, n, i, total_length) ==
    IF i < n
    THEN LET id == tokens[i + 1] IN
         IF id < 256 THEN decodeLength(tokens, n, i + 1, total_length + 1)
         ELSE IF InTable(id)
              THEN decodeLength(tokens, n, i + 1, total_length + strlen(TokenString(id)))
              ELSE -1
    ELSE total_length

\* second loop: the bytes written through ptr
RECURSIVE decodeFill(_, _, _, _)
decodeFill(tokens, n, i, out) ==
    IF i < n
    THEN LET id == tokens[i + 1] IN
         IF id < 256 THEN decodeFill(tokens, n, i + 1, Append(out, id % 256))
         ELSE IF InTable(id)
              THEN decodeFill(tokens, n, i + 1,
                              out \o SubSeq(TokenString(id), 1, strlen(TokenString(id))))
              ELSE decodeFill(tokens, n, i + 1, out)
    ELSE out

\* decode without the early return of the first loop
decodeSkipUnknown(tokens, n) == [null |-> FALSE, str |-> decodeFill(tokens, n, 0, <<>>)]

decode(tokens, n) ==
    IF decodeLength(tokens, n, 0, 0) < 0
    THEN [null |-> TRUE, str |-> <<>>]
    ELSE [null |-> FALSE, str |-> decodeFill(tokens, n, 0, <<>>)]

decodeCall(ids) ==
    /\ decOut' = decode(ids, Len(ids))
    /\ found' = [value |-> NOVALUE, endIndex |-> 0]
    /\ call' = Call("decode", <<>>, 0, ids)
    /\ UNCHANGED <<root, idx2token, token2idx, num_tokens, heap, nodeFrees, ub, inserted>>

Decode ==
    /\ Callable
    /\ \E ids \in IdSeqs : decodeCall(ids)
    /\ pc' = "idle"
    /\ NoEncode

\* main, lines 315-323: decode the ids that encode has just returned
DecodeEncoded ==
    /\ pc = "encoded"
    /\ ~ub
    /\ decodeCall(encoded)
    /\ pc' = "decoded"
    /\ UNCHANGED <<text, length, index, encoded>>

\* ---- teardown ----------------------------------------------------------------
Children(t, node) == {c \in 0..(NCHILDREN - 1) : Append(node, c) \in DOMAIN t}

\* freeTrieNode on the subtree of node: one free() more for every node it visits
RECURSIVE freeTrieNode(_, _, _)
RECURSIVE freeChildren(_, _, _, _)
freeChildren(t, node, cs, frees) ==
    IF cs = {} THEN frees
    ELSE LET c == CHOOSE x \in cs : \A y \in cs : x <= y
         IN freeChildren(t, node, cs \ {c}, freeTrieNode(t, Append(node, c), frees))

freeTrieNode(t, node, frees) ==
    LET below == freeChildren(t, node, Children(t, node), frees)
    IN Store(below, node, Load(below, node) + 1)

\* the loop of freeTokenizer: free(idx2token[i]) for i < num_tokens
RECURSIVE freeTokens(_, _)
freeTokens(h, i) ==
    IF i < num_tokens
    THEN LET p == Load(idx2token, i) IN
         freeTokens(IF p = 0 THEN h ELSE [h EXCEPT ![p].frees = @ + 1], i + 1)
    ELSE h

FreeTokenizer ==
    /\ Callable
    /\ nodeFrees' = freeTrieNode(root, <<>>, nodeFrees)
    /\ heap' = freeTokens(heap, 0)
    /\ pc' = "freed"
    /\ call' = Call("freeTokenizer", <<>>, 0, <<>>)
    /\ NoEncode
    /\ NoResult
    /\ UNCHANGED <<root, idx2token, token2idx, num_tokens, ub, inserted>>

\* ---- the program --------------------------------------------------------------
Init ==
    /\ root = createTokenizer.root
    /\ idx2token = <<>>
    /\ token2idx = <<>>
    /\ num_tokens = createTokenizer.num_tokens
    /\ heap = <<>>
    /\ nodeFrees = <<>>
    /\ ub = FALSE
    /\ pc = "idle"
    /\ call = Call("createTokenizer", <<>>, 0, <<>>)
    /\ text = <<>>
    /\ length = 0
    /\ index = 0
    /\ encoded = <<>>
    /\ decOut = [null |-> FALSE, str |-> <<>>]
    /\ found = [value |-> NOVALUE, endIndex |-> 0]
    /\ inserted = <<>>

Next ==
    \/ AddToken
    \/ EncodeBegin
    \/ EncodeLoop
    \/ EncodeReturn
    \/ Decode
    \/ DecodeEncoded
    \/ FreeTokenizer

Spec == Init /\ [][Next]_vars

\* ---- the trie alone: insertTrie and findLongest called directly ---------------
KeyBytes == {97, 98}
Keys == SeqsUpTo(KeyBytes, MaxKeyLen)
TrieValues == {0, 300}
Datas == SeqsUpTo(KeyBytes, MaxDataLen)

InsertTrie ==
    /\ Callable
    /\ \E key \in Keys, value \in TrieValues :
          /\ IF key \in DOMAIN inserted THEN TRUE
             ELSE Cardinality(DOMAIN inserted) < MaxInserts
          /\ root' = insertTrie(root, key, Len(key), value)
          /\ inserted' = Store(inserted, key, value)
          /\ call' = Call("insertTrie", key, value, <<>>)
    /\ pc' = "idle"
    /\ NoEncode
    /\ NoResult
    /\ UNCHANGED <<idx2token, token2idx, num_tokens, heap, nodeFrees, ub>>

FindLongest ==
    /\ Callable
    /\ \E data \in Datas :
          /\ found' = findLongest(root, data, Len(data))
          /\ call' = Call("findLongest", data, 0, <<>>)
    /\ pc' = "idle"
    /\ NoEncode
    /\ decOut' = [null |-> FALSE, str |-> <<>>]
    /\ UNCHANGED <<root, idx2token, token2idx, num_tokens, heap, nodeFrees, ub, inserted>>

NextTrie == InsertTrie \/ FindLongest

SpecTrie == Init /\ [][NextTrie]_vars

\* ---- the token length limit: entries around MAX_TOKEN_LENGTH bytes -------------
LongLiterals == {LitOf(Repeat(97, MAX_TOKEN_LENGTH - 1)),
                 LitOf(Repeat(97, MAX_TOKEN_LENGTH)),
                 LitOf(Repeat(97, MAX_TOKEN_LENGTH + 1)),
                 LitAB}
LenIds == {256, 300, 301}

AddTokenLong ==
    /\ Callable
    /\ num_tokens < MaxLenAdds
    /\ \E lit \in LongLiterals, id \in LenIds :
          /\ addToken(lit, id)
          /\ call' = Call("addToken", lit, id, <<>>)
    /\ pc' = "idle"
    /\ NoEncode
    /\ NoResult
    /\ UNCHANGED nodeFrees

NextLen == AddTokenLong

SpecLen == Init /\ [][NextLen]_vars

\* ---- the table capacity: ids at and beyond the ends of the arrays ---------------
CapIds == {-1, 300, MAX_TOKENS - 1, MAX_TOKENS}

AddTokenAnyId ==
    /\ Callable
    /\ num_tokens < MaxCapAdds
    /\ \E lit \in {LitA, LitAB, LitEmpty}, id \in CapIds :
          /\ addToken(lit, id)
          /\ call' = Call("addToken", lit, id, <<>>)
    /\ pc' = "idle"
    /\ NoEncode
    /\ NoResult
    /\ UNCHANGED nodeFrees

NextCap == AddTokenAnyId

SpecCap == Init /\ [][NextCap]_vars

\* ---- one vocabulary entry loaded again and again, then decode --------------------
ReloadLiterals == {LitAB}
ReloadIds == {256}
ReloadDecodeIds == {97, 256, 257, 300}

AddTokenReload ==
    /\ Callable
    /\ num_tokens < MaxReload
    /\ \E lit \in ReloadLiterals, id \in ReloadIds :
          /\ addToken(lit, id)
          /\ call' = Call("addToken", lit, id, <<>>)
    /\ pc' = "idle"
    /\ NoEncode
    /\ NoResult
    /\ UNCHANGED nodeFrees

\* decode is called straight after a load: after another decode it would only
\* return to the states it reaches here
DecodeReload ==
    /\ Callable
    /\ call.op = "addToken"
    /\ \E ids \in SeqsUpTo(ReloadDecodeIds, MaxIdsLen) : decodeCall(ids)
    /\ pc' = "idle"
    /\ NoEncode

NextReload == AddTokenReload \/ DecodeReload

SpecReload == Init /\ [][NextReload]_vars

\* ---- properties -------------------------------------------------------------------
\* the registered tokens that are a non-empty prefix of data, by the insertion history
Candidates(data) == {k \in DOMAIN inserted : Len(k) >= 1 /\ IsPrefix(k, data)}

Longest(cands) == CHOOSE k \in cands : \A j \in cands : Len(j) <= Len(k)

\* the bytes registered for id: the buffer addToken filled, without its final NUL
RegisteredBytes(id) == SubSeq(heap[idx2token[id]].data, 1, Len(heap[idx2token[id]].data) - 1)

RECURSIVE ExpectedBytes(_, _)
ExpectedBytes(ids, i) ==
    IF i > Len(ids) THEN <<>>
    ELSE (IF ids[i] < 256 THEN <<ids[i]>> ELSE RegisteredBytes(ids[i])) \o ExpectedBytes(ids, i + 1)

\* the table holds a valid vocabulary: byte-strings and ids in one-to-one
\* correspondence, every id in [256, MAX_TOKENS), every token within MAX_TOKEN_LENGTH
ValidVocabulary ==
    /\ \A k \in DOMAIN inserted :
          /\ inserted[k] >= 256 /\ inserted[k] < MAX_TOKENS
          /\ Len(k) <= MAX_TOKEN_LENGTH
          /\ inserted[k] \in DOMAIN idx2token
          /\ RegisteredBytes(inserted[k]) = k
    /\ \A id \in DOMAIN idx2token :
          /\ RegisteredBytes(id) \in DOMAIN inserted
          /\ inserted[RegisteredBytes(id)] = id

\* C1: round trip. With a valid vocabulary loaded, decoding the ids that encode
\* returned for a text succeeds and gives back exactly that text.
C1_RoundTrip ==
    (pc = "decoded" /\ ValidVocabulary) => decOut = [null |-> FALSE, str |-> text]

\* C2: greedy longest match at every position. An iteration of encode emits the id
\* of the longest registered token that is a prefix of the remaining text and
\* advances by its length; only when no registered token is a prefix does it emit
\* the byte at the position and advance by 1.
C2_GreedyLongestMatch ==
    [][(pc = "encode" /\ pc' = "encode") =>
        LET cands == Candidates(SubSeq(text, index + 1, length))
        IN IF cands # {}
           THEN /\ encoded' = Append(encoded, inserted[Longest(cands)])
                /\ index' = index + Len(Longest(cands))
           ELSE /\ encoded' = Append(encoded, text[index + 1])
                /\ index' = index + 1]_vars

\* C3: decode of known ids. When every id >= 256 of the sequence was registered,
\* decode succeeds and returns, in order, one byte per id < 256 and all the bytes
\* registered for each id >= 256.
C3_DecodeKnownIds ==
    (/\ call.op = "decode"
     /\ \A i \in 1..Len(call.ids) : call.ids[i] >= 256 => call.ids[i] \in DOMAIN idx2token)
    => decOut = [null |-> FALSE, str |-> ExpectedBytes(call.ids, 1)]

\* C4: an unknown id makes decode fail as a whole. When the sequence holds an id
\* >= 256 that has no entry in the table, wherever it stands, decode returns NULL
\* and no output.
C4_UnknownIdAtomic ==
    (/\ call.op = "decode"
     /\ \E i \in 1..Len(call.ids) : call.ids[i] >= 256 /\ call.ids[i] \notin DOMAIN idx2token)
    => decOut = [null |-> TRUE, str |-> <<>>]

\* the unknown id comes after an id that decode can look up, so that output had
\* already been due when the unknown id was met
C4_Witness ==
    /\ call.op = "decode"
    /\ Len(call.ids) >= 2
    /\ call.ids[1] >= 256 /\ InTable(call.ids[1])
    /\ call.ids[2] >= 256 /\ call.ids[2] \notin DOMAIN idx2token
    /\ decOut.null

\* the number of bytes a literal denotes
EntryLength(lit) == parse_python_literal(lit, Len(lit)).len

\* C5: token length boundary. An entry of exactly MAX_TOKEN_LENGTH bytes is stored
\* in full; an entry of MAX_TOKEN_LENGTH + 1 bytes is rejected and leaves the trie
\* and the table as they were.
C5_TokenLengthBoundary ==
    [][(call'.op = "addToken" /\ pc' = "idle") =>
        /\ EntryLength(call'.lit) = MAX_TOKEN_LENGTH + 1 =>
              UNCHANGED <<root, idx2token, token2idx, num_tokens, heap>>
        /\ EntryLength(call'.lit) = MAX_TOKEN_LENGTH =>
              /\ root'[Repeat(97, MAX_TOKEN_LENGTH)] = call'.id
              /\ heap'[idx2token'[call'.id]].data = Repeat(97, MAX_TOKEN_LENGTH) \o <<0>>]_vars

\* C6: encode advances and stays inside its buffer. Every iteration moves index
\* forward by at least 1 and never past length, the ids emitted never outnumber
\* the bytes consumed, and encode returns with index = length.
C6_EncodeProgress ==
    [][pc = "encode" =>
        /\ Len(encoded) <= index /\ index <= length
        /\ pc' = "encode" => /\ index' >= index + 1
                             /\ index' <= length
                             /\ Len(encoded') <= index'
        /\ pc' = "encoded" => index = length]_vars

\* encode has returned for a text of two bytes or more that it matched with a
\* longer token, with the empty token registered
C6_Witness ==
    /\ pc = "encoded"
    /\ <<>> \in DOMAIN inserted
    /\ length >= 2
    /\ Len(encoded) < length

\* C7: encode and decode are read-only. No step of encode and no call of decode
\* changes the trie, idx2token, token2idx, num_tokens or a stored byte-string.
C7_ReadOnly ==
    [][(pc' \in {"encode", "encoded", "decoded"} \/ call'.op = "decode") =>
        UNCHANGED <<root, idx2token, token2idx, num_tokens, heap>>]_vars

\* encode and then decode have run against a table that holds a token encode used
C7_Witness ==
    /\ pc = "decoded"
    /\ num_tokens >= 1
    /\ \E i \in 1..Len(encoded) : encoded[i] >= 256

\* C8: findLongest returns the longest registered prefix with the value of its
\* latest insertion: (id, k) for the longest inserted key data[0..k), k >= 1, and
\* (-1, 0) when no inserted non-empty key is a prefix of data.
C8_LongestRegisteredPrefix ==
    call.op = "findLongest" =>
        LET cands == Candidates(call.lit)
        IN IF cands = {}
           THEN found = [value |-> -1, endIndex |-> 0]
           ELSE found = [value |-> inserted[Longest(cands)], endIndex |-> Len(Longest(cands))]

\* the walk went down through nodes that belong only to longer keys and
\* findLongest returned no match
C8_Witness ==
    /\ call.op = "findLongest"
    /\ \E node \in DOMAIN root : Len(node) >= 1 /\ IsPrefix(node, call.lit)
    /\ found = [value |-> -1, endIndex |-> 0]

\* C9: every store to idx2token[id] and token2idx[id] uses an index in
\* [0, MAX_TOKENS).
C9_StoresInRange ==
    \A i \in DOMAIN idx2token \cup DOMAIN token2idx : i >= 0 /\ i < MAX_TOKENS

\* C10: complete teardown. After freeTokenizer every trie node and every buffer
\* that addToken allocated has been freed exactly once.
C10_CompleteTeardown ==
    pc = "freed" =>
        /\ \A node \in DOMAIN root : Load(nodeFrees, node) = 1
        /\ \A h \in 1..Len(heap) : heap[h].frees = 1

====
